---- MODULE Spec2Model ----
(***************************************************************************)
(* Model of python-agents/agents/resume_agent.py: the schema normalizer    *)
(* ResumeAgent._validate_and_clean, applied to the JSON value returned by  *)
(* the content generator and to a fallback profile.                        *)
(*                                                                         *)
(* Python values are tagged records.  A str is a sequence of one-character *)
(* strings, so that int(), str() and iteration over a str are computed.    *)
(* A dict is a function from its keys to values; a key that is absent is   *)
(* not in the function's domain.                                           *)
(***************************************************************************)
EXTENDS Integers, Sequences, FiniteSets, TLC

\* ------------------------------------------------------------------------
\* Python values
\* ------------------------------------------------------------------------
PyNone == [t |-> "NoneType"]
PyInt(n) == [t |-> "int", i |-> n]
PyStr(s) == [t |-> "str", s |-> s]
PyList(xs) == [t |-> "list", l |-> xs]
PyDict(f) == [t |-> "dict", d |-> f]

EmptyFn == [k \in {} |-> PyNone]
EmptyDict == PyDict(EmptyFn)
EmptyList == PyList(<<>>)
EmptyStr == PyStr(<<>>)

IsDict(x) == x.t = "dict"
IsStr(x) == x.t = "str"
IsList(x) == x.t = "list"
IsInt(x) == x.t = "int"

\* An expression either yields a value or raises: exc = "" means no exception.
Ok(v) == [exc |-> "", val |-> v]
Raise(e) == [exc |-> e, val |-> PyNone]

\* d.get(k, default) on a dict
Get(d, k, default) == IF k \in DOMAIN d.d THEN d.d[k] ELSE default

\* x.get(k, default) on any value: only a dict has the attribute get
AttrGet(x, k, default) ==
    IF IsDict(x) THEN Ok(Get(x, k, default)) ELSE Raise("AttributeError")

\* ------------------------------------------------------------------------
\* int(x) and str(x)
\* ------------------------------------------------------------------------
Digits == <<"0", "1", "2", "3", "4", "5", "6", "7", "8", "9">>

IsDigit(c) == \E j \in 1..10 : Digits[j] = c
DigitVal(c) == (CHOOSE j \in 1..10 : Digits[j] = c) - 1

RECURSIVE LStrip(_)
LStrip(s) == IF s # <<>> /\ Head(s) = " " THEN LStrip(Tail(s)) ELSE s

RECURSIVE RStrip(_)
RStrip(s) ==
    IF s # <<>> /\ s[Len(s)] = " " THEN RStrip(SubSeq(s, 1, Len(s) - 1)) ELSE s

RECURSIVE DigitsVal(_)
DigitsVal(s) ==
    IF s = <<>> THEN 0
    ELSE 10 * DigitsVal(SubSeq(s, 1, Len(s) - 1)) + DigitVal(s[Len(s)])

AllDigits(s) == s # <<>> /\ \A j \in 1..Len(s) : IsDigit(s[j])

\* int(str): surrounding blanks are stripped, an optional sign, then digits
ParseInt(s) ==
    LET body == RStrip(LStrip(s))
        signed == body # <<>> /\ Head(body) \in {"-", "+"}
        digs == IF signed THEN Tail(body) ELSE body
    IN  IF AllDigits(digs)
        THEN Ok(PyInt(IF signed /\ Head(body) = "-"
                      THEN 0 - DigitsVal(digs) ELSE DigitsVal(digs)))
        ELSE Raise("ValueError")

int(x) ==
    CASE IsInt(x) -> Ok(x)
      [] IsStr(x) -> ParseInt(x.s)
      [] OTHER -> Raise("TypeError")

RECURSIVE NatChars(_)
NatChars(n) ==
    IF n < 10 THEN <<Digits[n + 1]>>
    ELSE NatChars(n \div 10) \o <<Digits[(n % 10) + 1]>>

IntChars(n) == IF n < 0 THEN <<"-">> \o NatChars(0 - n) ELSE NatChars(n)

\* Order in which a dict of the model lists its keys (insertion order of the
\* JSON object, taken to be the order of the schema).
KeyOrder ==
    <<"header", "contact", "summary", "skills", "projects", "experience",
      "education", "extra", "name", "title", "phone", "email", "address",
      "location", "website", "linkedin", "level", "tech_stack",
      "technologies", "points", "highlights", "role", "company", "duration",
      "achievements", "degree", "institution", "year", "details", "gpa">>

KeyChars(k) ==
    CASE k = "header" -> <<"h","e","a","d","e","r">>
      [] k = "contact" -> <<"c","o","n","t","a","c","t">>
      [] k = "summary" -> <<"s","u","m","m","a","r","y">>
      [] k = "skills" -> <<"s","k","i","l","l","s">>
      [] k = "projects" -> <<"p","r","o","j","e","c","t","s">>
      [] k = "experience" -> <<"e","x","p","e","r","i","e","n","c","e">>
      [] k = "education" -> <<"e","d","u","c","a","t","i","o","n">>
      [] k = "extra" -> <<"e","x","t","r","a">>
      [] k = "name" -> <<"n","a","m","e">>
      [] k = "title" -> <<"t","i","t","l","e">>
      [] k = "phone" -> <<"p","h","o","n","e">>
      [] k = "email" -> <<"e","m","a","i","l">>
      [] k = "address" -> <<"a","d","d","r","e","s","s">>
      [] k = "location" -> <<"l","o","c","a","t","i","o","n">>
      [] k = "website" -> <<"w","e","b","s","i","t","e">>
      [] k = "linkedin" -> <<"l","i","n","k","e","d","i","n">>
      [] k = "level" -> <<"l","e","v","e","l">>
      [] k = "tech_stack" -> <<"t","e","c","h","_","s","t","a","c","k">>
      [] k = "technologies" -> <<"t","e","c","h","n","o","l","o","g","i","e","s">>
      [] k = "points" -> <<"p","o","i","n","t","s">>
      [] k = "highlights" -> <<"h","i","g","h","l","i","g","h","t","s">>
      [] k = "role" -> <<"r","o","l","e">>
      [] k = "company" -> <<"c","o","m","p","a","n","y">>
      [] k = "duration" -> <<"d","u","r","a","t","i","o","n">>
      [] k = "achievements" -> <<"a","c","h","i","e","v","e","m","e","n","t","s">>
      [] k = "degree" -> <<"d","e","g","r","e","e">>
      [] k = "institution" -> <<"i","n","s","t","i","t","u","t","i","o","n">>
      [] k = "year" -> <<"y","e","a","r">>
      [] k = "details" -> <<"d","e","t","a","i","l","s">>
      [] k = "gpa" -> <<"g","p","a">>

\* The keys of a dict, in iteration order
Keys(x) == SelectSeq(KeyOrder, LAMBDA k : k \in DOMAIN x.d)

RECURSIVE Repr(_)
RECURSIVE JoinRepr(_)
RECURSIVE JoinItems(_, _)
\* repr(x): a str is quoted, a container lists the repr of its members
Repr(x) ==
    CASE IsStr(x) -> <<"'">> \o x.s \o <<"'">>
      [] IsInt(x) -> IntChars(x.i)
      [] IsList(x) -> <<"[">> \o JoinRepr(x.l) \o <<"]">>
      [] IsDict(x) -> <<"{">> \o JoinItems(x, Keys(x)) \o <<"}">>
      [] OTHER -> <<"N","o","n","e">>
JoinRepr(xs) ==
    IF xs = <<>> THEN <<>>
    ELSE IF Len(xs) = 1 THEN Repr(xs[1])
    ELSE Repr(xs[1]) \o <<",", " ">> \o JoinRepr(Tail(xs))
JoinItems(x, ks) ==
    IF ks = <<>> THEN <<>>
    ELSE LET item == <<"'">> \o KeyChars(ks[1]) \o <<"'", ":", " ">>
                     \o Repr(x.d[ks[1]])
         IN  IF Len(ks) = 1 THEN item
             ELSE item \o <<",", " ">> \o JoinItems(x, Tail(ks))

\* str(x): a str is returned as it is, everything else by its repr
str(x) == IF IsStr(x) THEN x ELSE PyStr(Repr(x))

\* iter(x): the members a for loop visits
Iterate(x) ==
    CASE IsList(x) -> Ok(x)
      [] IsStr(x) -> Ok(PyList([j \in 1..Len(x.s) |-> PyStr(<<x.s[j]>>)]))
      [] IsDict(x) ->
            Ok(PyList([j \in 1..Len(Keys(x)) |-> PyStr(KeyChars(Keys(x)[j]))]))
      [] OTHER -> Raise("TypeError")

\* ------------------------------------------------------------------------
\* ResumeAgent._validate_and_clean
\* ------------------------------------------------------------------------
DefaultLevel == 50
BareSkillLevel == 70

\* The first exception raised by a sequence of evaluations, "" if none
FirstExc(rs) ==
    LET bad == SelectSeq(rs, LAMBDA r : r.exc # "")
    IN  IF bad = <<>> THEN "" ELSE bad[1].exc

\* data.get('header', {}).get('name', user_profile.get('name', ''))
header_name(data, user_profile) ==
    AttrGet(Get(data, "header", EmptyDict), "name",
            Get(user_profile, "name", EmptyStr))

\* A normalizer that takes a missing title from the profile
header_title_from_profile(data, user_profile) ==
    AttrGet(Get(data, "header", EmptyDict), "title",
            Get(user_profile, "title", EmptyStr))

\* data.get('header', {}).get('title', '')
header_title(data, user_profile) ==
    AttrGet(Get(data, "header", EmptyDict), "title", EmptyStr)

ContactFields == <<"phone", "email", "address", "website", "linkedin">>

\* The key of user_profile that backs a contact field
ProfileKey(f) == IF f = "address" THEN "location" ELSE f

\* A normalizer that also falls back to the profile when the value
\* is present and empty (x.get(f) or profile value)
contact_field_or(data, user_profile, f) ==
    LET raw == AttrGet(Get(data, "contact", EmptyDict), f, EmptyStr)
    IN  IF raw.exc = "" /\ raw.val \in {EmptyStr, PyNone}
        THEN Ok(Get(user_profile, ProfileKey(f), EmptyStr))
        ELSE raw

\* data.get('contact', {}).get(f, user_profile.get(ProfileKey(f), ''))
contact_field(data, user_profile, f) ==
    AttrGet(Get(data, "contact", EmptyDict), f,
            Get(user_profile, ProfileKey(f), EmptyStr))

\* data.get('summary', '')
summary_field(data) == Get(data, "summary", EmptyStr)

\* A loop that puts each new entry in front of the earlier ones
ListPrepend(acc, entry) == <<entry>> \o acc

\* cleaned[...].append(entry)
ListAppend(acc, entry) == Append(acc, entry)

\* int(skill.get('level', 50))
skill_level(skill) == int(Get(skill, "level", PyInt(DefaultLevel)))

\* skill.get('name', '')
skill_name(skill) == Get(skill, "name", EmptyStr)

\* A skills loop without the branch for bare strings
SkillKept_mappings_only(skill) == IsDict(skill)

\* The branch of the skills loop an entry takes
SkillKept(skill) == IsDict(skill) \/ IsStr(skill)

RECURSIVE skills_loop(_, _)
skills_loop(items, acc) ==
    IF items = <<>> THEN Ok(PyList(acc))
    ELSE LET skill == Head(items)
         IN  IF ~SkillKept(skill) THEN skills_loop(Tail(items), acc)
             ELSE IF IsDict(skill)
             THEN LET level == skill_level(skill)
                  IN  IF level.exc # "" THEN level
                      ELSE skills_loop(Tail(items),
                               ListAppend(acc, PyDict([name |-> skill_name(skill),
                                                       level |-> level.val])))
             ELSE skills_loop(Tail(items),
                      ListAppend(acc, PyDict([name |-> skill,
                                              level |-> PyInt(BareSkillLevel)])))

\* A normalizer that tries the alias key before the canonical key
project_title_alias_first(proj) == Get(proj, "name", Get(proj, "title", EmptyStr))

\* A normalizer that reads the title under the alias key only
project_title_alias_only(proj) == Get(proj, "name", EmptyStr)

project_title(proj) == Get(proj, "title", Get(proj, "name", EmptyStr))
project_tech_stack(proj) ==
    Get(proj, "tech_stack", Get(proj, "technologies", EmptyList))
project_points(proj) == Get(proj, "points", Get(proj, "highlights", EmptyList))

clean_project(proj) ==
    PyDict([title |-> project_title(proj),
            tech_stack |-> project_tech_stack(proj),
            points |-> project_points(proj)])

experience_role(exp) == Get(exp, "role", Get(exp, "title", EmptyStr))
experience_points(exp) ==
    Get(exp, "points", Get(exp, "achievements", EmptyList))

clean_experience(exp) ==
    PyDict([role |-> experience_role(exp),
            company |-> Get(exp, "company", EmptyStr),
            location |-> Get(exp, "location", EmptyStr),
            duration |-> Get(exp, "duration", EmptyStr),
            points |-> experience_points(exp)])

education_year(edu) == str(Get(edu, "year", EmptyStr))
education_details(edu) == Get(edu, "details", EmptyStr)

clean_education(edu) ==
    PyDict([degree |-> Get(edu, "degree", EmptyStr),
            institution |-> Get(edu, "institution", EmptyStr),
            year |-> education_year(edu),
            details |-> education_details(edu)])

\* if isinstance(entry, dict): the guard of the three other loops
EntryKept(entry) == IsDict(entry)

clean_entry(field, entry) ==
    CASE field = "projects" -> clean_project(entry)
      [] field = "experience" -> clean_experience(entry)
      [] field = "education" -> clean_education(entry)

RECURSIVE entries_loop(_, _, _)
entries_loop(field, items, acc) ==
    IF items = <<>> THEN Ok(PyList(acc))
    ELSE IF EntryKept(Head(items))
    THEN entries_loop(field, Tail(items),
                      ListAppend(acc, clean_entry(field, Head(items))))
    ELSE entries_loop(field, Tail(items), acc)

\* for skill in data.get('skills', []): ...
clean_skills(data) ==
    LET it == Iterate(Get(data, "skills", EmptyList))
    IN  IF it.exc # "" THEN it ELSE skills_loop(it.val.l, <<>>)

\* for entry in data.get(field, []): ...
clean_list(data, field) ==
    LET it == Iterate(Get(data, field, EmptyList))
    IN  IF it.exc # "" THEN it ELSE entries_loop(field, it.val.l, <<>>)

validate_and_clean(data, user_profile) ==
    LET name == header_name(data, user_profile)
        title == header_title(data, user_profile)
        contact == [j \in 1..Len(ContactFields) |->
                        contact_field(data, user_profile, ContactFields[j])]
        skills == clean_skills(data)
        projects == clean_list(data, "projects")
        experience == clean_list(data, "experience")
        education == clean_list(data, "education")
        exc == FirstExc(<<name, title>> \o contact
                        \o <<skills, projects, experience, education>>)
    IN  IF exc # "" THEN Raise(exc)
        ELSE Ok(PyDict(
            [header |-> PyDict([name |-> name.val, title |-> title.val]),
             contact |-> PyDict([phone |-> contact[1].val,
                                 email |-> contact[2].val,
                                 address |-> contact[3].val,
                                 website |-> contact[4].val,
                                 linkedin |-> contact[5].val]),
             summary |-> summary_field(data),
             skills |-> skills.val,
             projects |-> projects.val,
             experience |-> experience.val,
             education |-> education.val]))

\* ------------------------------------------------------------------------
\* Inputs: the mappings the generator can return and the fallback profiles
\* ------------------------------------------------------------------------
MaxEntries == 2

S1(a) == PyStr(<<a>>)
S2(a, b) == PyStr(<<a, b>>)
NotANumber == PyStr(<<"n","o","t"," ","a"," ","n","u","m","b","e","r">>)

\* The functions over a subset of keys whose values come from vals[k]
RECURSIVE PartialFns(_, _)
PartialFns(keys, vals) ==
    IF keys = {} THEN {EmptyFn}
    ELSE LET k == CHOOSE x \in keys : TRUE
             rest == PartialFns(keys \ {k}, vals)
         IN  rest \cup {(k :> v) @@ f : f \in rest, v \in vals[k]}

Dicts(keys, vals) == {PyDict(f) : f \in PartialFns(keys, vals)}

\* The lists of at most n members of a set
Lists(S, n) == {PyList(xs) : xs \in UNION {[1..m -> S] : m \in 0..n}}

\* One-key mappings
Doc(k, v) == PyDict([j \in {k} |-> v])

\* Values of another type than the schema asks for
NonMappings == {PyNone, S2("a", "b"), PyInt(7), EmptyList}
NonSequences == {PyNone, PyInt(7), S2("a", "b"), Doc("name", S1("x"))}

HeaderValues ==
    Dicts({"name", "title"},
          [name |-> {S2("J", "D"), EmptyStr, PyNone},
           title |-> {S2("S", "E"), EmptyStr}])
    \cup NonMappings

HeaderProfiles ==
    Dicts({"name", "title"}, [name |-> {S2("P", "N")}, title |-> {S2("P", "T")}])

ContactValues ==
    Dicts({"phone", "email", "address", "website", "linkedin"},
          [phone |-> {S2("r", "1"), EmptyStr}, email |-> {S2("r", "2")},
           address |-> {S2("r", "3")}, website |-> {S2("r", "4")},
           linkedin |-> {S2("r", "5")}])
    \cup NonMappings

ContactProfiles ==
    Dicts({"phone", "email", "address", "location", "website", "linkedin"},
          [phone |-> {S2("p", "1")}, email |-> {S2("p", "2")},
           address |-> {S2("p", "3")}, location |-> {S2("p", "6")},
           website |-> {S2("p", "4")}, linkedin |-> {S2("p", "5")}])

FullProfile ==
    PyDict([name |-> S2("P", "N"), phone |-> S2("p", "1"),
            email |-> S2("p", "2"), location |-> S2("p", "6"),
            website |-> S2("p", "4"), linkedin |-> S2("p", "5")])

SummaryValues == {S2("o", "k"), EmptyStr, PyNone, PyInt(7), EmptyList}

SkillEntries ==
    Dicts({"name", "level"},
          [name |-> {S2("P", "y"), EmptyStr},
           level |-> {PyInt(0 - 5), PyInt(0), PyInt(50), PyInt(100),
                      PyInt(150), NotANumber}])
    \cup {PyDict([name |-> S2("G", "o"), level |-> lv]) :
            lv \in {PyInt(37), S2("4", "2"), PyNone}}
    \cup {S2("P", "y"), EmptyStr, PyInt(7), PyNone}

ProjectEntries ==
    Dicts({"title", "name"},
          [title |-> {S1("T"), EmptyStr}, name |-> {S1("N")}])
    \cup Dicts({"tech_stack", "technologies"},
               [tech_stack |-> {PyList(<<S1("a")>>), EmptyList, PyNone,
                                S2("p", "y")},
                technologies |-> {PyList(<<S1("b")>>)}])
    \cup Dicts({"points", "highlights"},
               [points |-> {PyList(<<S1("p")>>), PyNone},
                highlights |-> {PyList(<<S1("h")>>)}])
    \cup {S1("x"), PyNone}

ExperienceEntries ==
    Dicts({"role", "title"}, [role |-> {S1("R")}, title |-> {S1("T")}])
    \cup Dicts({"points", "achievements"},
               [points |-> {PyList(<<S1("p")>>), PyInt(3)},
                achievements |-> {PyList(<<S1("a")>>)}])
    \cup {PyDict([role |-> S1("R"), company |-> S1("C"), location |-> S1("L"),
                  duration |-> S1("D"), points |-> PyList(<<S1("p")>>)]),
          S1("x"), PyNone}

EducationEntries ==
    Dicts({"year", "degree"},
          [year |-> {S2("2", "0"), PyInt(2020), PyInt(0), PyInt(0 - 3), PyNone},
           degree |-> {S1("B")}])
    \cup Dicts({"details", "gpa"},
               [details |-> {S1("d"), EmptyStr}, gpa |-> {S2("3", "9")}])
    \cup {PyDict([degree |-> S1("B"), institution |-> S1("U"),
                  year |-> PyInt(2020), details |-> S1("d")]),
          S1("x"), PyNone}

\* Mappings in which every field is either absent or has a well-typed value,
\* with or without a key the schema does not know
WholeDocs ==
    Dicts({"header", "contact", "summary", "skills", "projects", "experience",
           "education", "extra"},
          [header |-> {PyDict([name |-> S2("J", "D")])},
           contact |-> {PyDict([email |-> S2("r", "2")])},
           summary |-> {S2("o", "k")},
           skills |-> {PyList(<<S2("P", "y")>>)},
           projects |-> {PyList(<<PyDict([name |-> S1("N")])>>)},
           experience |-> {PyList(<<PyDict([title |-> S1("T")])>>)},
           education |-> {PyList(<<PyDict([year |-> PyInt(2020)])>>)},
           extra |-> {PyInt(7)}])

Inputs ==
    ({Doc("header", h) : h \in HeaderValues} \X HeaderProfiles)
    \cup ({Doc("contact", c) : c \in ContactValues} \X ContactProfiles)
    \cup ({Doc("summary", v) : v \in SummaryValues} \X {EmptyDict})
    \cup ({Doc("skills", v) : v \in NonSequences \cup Lists(SkillEntries, MaxEntries)}
          \X {EmptyDict})
    \cup ({Doc("projects", v) :
             v \in NonSequences \cup Lists(ProjectEntries, MaxEntries)}
          \X {EmptyDict})
    \cup ({Doc("experience", v) :
             v \in NonSequences \cup Lists(ExperienceEntries, MaxEntries)}
          \X {EmptyDict})
    \cup ({Doc("education", v) :
             v \in NonSequences \cup Lists(EducationEntries, MaxEntries)}
          \X {EmptyDict})
    \cup (WholeDocs \X {EmptyDict, FullProfile})

\* ------------------------------------------------------------------------
\* The calls
\* ------------------------------------------------------------------------
VARIABLES data, user_profile, pc, result, again,
          existing_resume, response, llm_calls,
          validation, rendered, files, clock, procs

cleanVars == <<data, user_profile, result, again>>
agentVars == <<existing_resume, response, llm_calls>>
renderVars == <<validation, rendered, files, clock, procs>>

vars == <<cleanVars, pc, agentVars, renderVars>>

NoResult == Raise("not called")
NoResponse == Raise("not called")
NoValidation == [valid |-> FALSE, missing_fields |-> <<"not called">>]
NoRender == [op |-> "none"]

\* No operation of the agent has been called
AgentIdle ==
    /\ existing_resume = PyNone
    /\ response = NoResponse
    /\ llm_calls = 0

\* No operation of the PDF generator has been called, the output directory
\* is empty
RenderIdle ==
    /\ validation = NoValidation
    /\ rendered = NoRender
    /\ files = EmptyFn
    /\ clock = 0
    /\ procs = <<>>

Init ==
    /\ \E in \in Inputs : data = in[1] /\ user_profile = in[2]
    /\ pc = "start"
    /\ result = NoResult
    /\ again = NoResult
    /\ AgentIdle
    /\ RenderIdle

\* cleaned = self._validate_and_clean(data, user_profile)
Clean ==
    /\ pc = "start"
    /\ result' = validate_and_clean(data, user_profile)
    /\ pc' = "cleaned"
    /\ UNCHANGED <<data, user_profile, again, agentVars, renderVars>>

\* The cleaned document is passed to _validate_and_clean once more, with the
\* same profile
CleanAgain ==
    /\ pc = "cleaned"
    /\ result.exc = ""
    /\ again' = validate_and_clean(result.val, user_profile)
    /\ pc' = "recleaned"
    /\ UNCHANGED <<data, user_profile, result, agentVars, renderVars>>

Next == Clean \/ CleanAgain

Spec == Init /\ [][Next]_vars

Returned == pc # "start" /\ result.exc = ""
Raised == pc # "start" /\ result.exc # ""

\* ------------------------------------------------------------------------
\* Properties of the normalizer
\* ------------------------------------------------------------------------
ListFields == {"skills", "projects", "experience", "education"}

\* The value of a top-level field of the input, None standing for absence
Raw(field) == Get(data, field, PyNone)
HasList(field) == field \in DOMAIN data.d /\ IsList(data.d[field])

\* The field of the document the first call returned
Out(field) == result.val.d[field]

\* A top-level field that is absent or whose value has the type of the schema
Benign(field) ==
    field \in DOMAIN data.d =>
        CASE field \in {"header", "contact"} -> IsDict(data.d[field])
          [] field = "skills" ->
                /\ IsList(data.d.skills)
                /\ \A j \in 1..Len(data.d.skills.l) :
                     LET e == data.d.skills.l[j]
                     IN  (IsDict(e) /\ "level" \in DOMAIN e.d) => IsInt(e.d.level)
          [] field \in ListFields \ {"skills"} -> IsList(data.d[field])
          [] OTHER -> TRUE

\* Every field but the given one is benign
OthersBenign(field) == \A g \in DOMAIN data.d \ {field} : Benign(g)

AllStr(x, keys) == IsDict(x) /\ DOMAIN x.d = keys /\ \A k \in keys : IsStr(x.d[k])

SchemaTyped(doc) ==
    /\ IsDict(doc)
    /\ DOMAIN doc.d = {"header", "contact", "summary"} \cup ListFields
    /\ AllStr(doc.d.header, {"name", "title"})
    /\ AllStr(doc.d.contact, {"phone", "email", "address", "website", "linkedin"})
    /\ IsStr(doc.d.summary)
    /\ \A f \in ListFields : IsList(doc.d[f])

\* C1: for every input mapping and every fallback profile the call returns
\* without raising, and the returned document has the seven top-level fields,
\* header and contact being mappings of strings, summary a string and the
\* four others sequences.
C1_Totality == pc # "start" => result.exc = "" /\ SchemaTyped(result.val)

Clamp(n) == IF n < 0 THEN 0 ELSE IF n > 100 THEN 100 ELSE n

\* The level the clamping rule gives a structured skill entry
ClampedLevel(skill) ==
    IF "level" \notin DOMAIN skill.d THEN 50
    ELSE IF IsInt(skill.d.level) THEN Clamp(skill.d.level.i)
    ELSE IF IsStr(skill.d.level) /\ ParseInt(skill.d.level.s).exc = ""
    THEN Clamp(ParseInt(skill.d.level.s).val.i)
    ELSE 50

\* Structured skill entries that have a name, so that every rule keeps them
NamedSkill(e) == IsDict(e) /\ "name" \in DOMAIN e.d /\ e.d.name # EmptyStr

\* C2: every structured skill entry gets an integer level in [0,100]: below
\* 0 gives 0, above 100 gives 100, a level in range is kept, a non-numeric
\* or missing level gives 50.
C2_LevelClamped ==
    (pc # "start" /\ HasList("skills") /\ OthersBenign("skills")
        /\ \A j \in 1..Len(Raw("skills").l) : NamedSkill(Raw("skills").l[j]))
    => /\ result.exc = ""
       /\ Len(Out("skills").l) = Len(Raw("skills").l)
       /\ \A j \in 1..Len(Raw("skills").l) :
            Out("skills").l[j].d.level = PyInt(ClampedLevel(Raw("skills").l[j]))

\* C3: a document the call returned passes through a second call with the
\* same profile unchanged.
C3_Idempotent == pc = "recleaned" => again.exc = "" /\ again.val = result.val

\* A second call has returned, on a document that the first call had changed
\* by resolving an alias, coercing a level and wrapping a bare skill name
C3_Witness ==
    /\ pc = "recleaned"
    /\ again.exc = ""
    /\ result.val # data
    /\ \/ \E j \in 1..Len(Out("projects").l) :
            Out("projects").l[j].d.title = S1("N")
       \/ \E j \in 1..Len(Out("skills").l) :
            Out("skills").l[j].d.level \in {PyInt(42), PyInt(BareSkillLevel)}

\* The nested array fields of the entries of a list field
NestedArrays(field) ==
    CASE field = "projects" -> {"tech_stack", "points"}
      [] field = "experience" -> {"points"}
      [] OTHER -> {}

\* C4: skills, projects, experience, education and every nested tech_stack
\* and points of a returned document are sequences, and a list field that
\* is absent, null or not a sequence in the input normalizes to the empty
\* sequence.
C4_ArraysNeverNull ==
    pc # "start" =>
        /\ \A f \in ListFields :
               (~HasList(f) /\ OthersBenign(f))
               => result.exc = "" /\ Out(f) = EmptyList
        /\ result.exc = "" =>
            \A f \in ListFields :
                /\ IsList(Out(f))
                /\ \A j \in 1..Len(Out(f).l) :
                       \A k \in NestedArrays(f) : IsList(Out(f).l[j].d[k])

\* The mappings among the entries of a list field of the input, in order
Mappings(field) == SelectSeq(Raw(field).l, IsDict)

\* The value under the canonical key if present, else under the alias key if
\* present, else the default
Resolve(entry, canonical, alias, default) ==
    IF canonical \in DOMAIN entry.d THEN entry.d[canonical]
    ELSE IF alias \in DOMAIN entry.d THEN entry.d[alias]
    ELSE default

\* C5: each aliased field of a normalized project or experience entry is the
\* value under the canonical key when present, else the value under the
\* alias key, else the default.
C5_AliasPriority ==
    /\ (Returned /\ HasList("projects")) =>
        /\ Len(Out("projects").l) = Len(Mappings("projects"))
        /\ \A j \in 1..Len(Mappings("projects")) :
            LET raw == Mappings("projects")[j]
                out == Out("projects").l[j].d
            IN  /\ out.title = Resolve(raw, "title", "name", EmptyStr)
                /\ out.tech_stack
                     = Resolve(raw, "tech_stack", "technologies", EmptyList)
                /\ out.points = Resolve(raw, "points", "highlights", EmptyList)
    /\ (Returned /\ HasList("experience")) =>
        /\ Len(Out("experience").l) = Len(Mappings("experience"))
        /\ \A j \in 1..Len(Mappings("experience")) :
            LET raw == Mappings("experience")[j]
                out == Out("experience").l[j].d
            IN  /\ out.role = Resolve(raw, "role", "title", EmptyStr)
                /\ out.points = Resolve(raw, "points", "achievements", EmptyList)

\* The call has returned for projects of which one has a name and no title
\* and got the name as title, one has both keys and kept its title, and one
\* has neither and got the empty title
C5_Witness ==
    /\ Returned
    /\ HasList("projects")
    /\ \E j \in 1..Len(Mappings("projects")) :
        /\ DOMAIN Mappings("projects")[j].d = {"name"}
        /\ Out("projects").l[j].d.title = S1("N")
    /\ \E j \in 1..Len(Mappings("projects")) :
        \/ /\ DOMAIN Mappings("projects")[j].d = {"name", "title"}
           /\ Out("projects").l[j].d.title = S1("T")
        \/ /\ DOMAIN Mappings("projects")[j].d = {}
           /\ Out("projects").l[j].d.title = EmptyStr

\* Entries of the skills list that a skill is extracted from
SkillShaped(e) ==
    \/ IsStr(e)
    \/ IsDict(e) /\ ("level" \in DOMAIN e.d =>
                        IsInt(e.d.level) /\ e.d.level.i \in 0..100)

\* The name an entry of the skills list yields
YieldedName(e) ==
    IF IsStr(e) THEN e
    ELSE IF "name" \in DOMAIN e.d THEN e.d.name ELSE EmptyStr

\* The skill extracted from an entry
Extracted(e) ==
    IF IsStr(e) THEN PyDict([name |-> e, level |-> PyInt(70)])
    ELSE PyDict([name |-> YieldedName(e),
                 level |-> IF "level" \in DOMAIN e.d THEN e.d.level
                           ELSE PyInt(50)])

\* C6: a bare string s gives {name: s, level: 70}, a structured entry gives
\* its name and its level (50 when missing), and the entries that yield an
\* empty name are dropped, so that no normalized skill has an empty name.
C6_SkillExtraction ==
    (pc # "start" /\ HasList("skills") /\ OthersBenign("skills")
        /\ \A j \in 1..Len(Raw("skills").l) : SkillShaped(Raw("skills").l[j]))
    => /\ result.exc = ""
       /\ LET named == SelectSeq(Raw("skills").l,
                                 LAMBDA e : YieldedName(e) # EmptyStr)
          IN  Out("skills").l = [j \in 1..Len(named) |-> Extracted(named[j])]

\* The entries of a list field of the input that the loop of that field
\* takes, in order
Taken(field) ==
    SelectSeq(Raw(field).l,
              LAMBDA e : IF field = "skills" THEN IsDict(e) \/ IsStr(e)
                         ELSE IsDict(e))

\* What the call makes of one entry when it is the only one of its list
Alone(field, entry) ==
    validate_and_clean(Doc(field, PyList(<<entry>>)), user_profile).val.d[field].l

\* C7: every mapping entry of projects and experience, the empty mapping
\* included, gives exactly one normalized entry, and the normalized entries
\* of skills, projects, experience and education are in the order of the
\* entries they come from.
C7_RetentionAndOrder ==
    Returned =>
        \A f \in ListFields :
            HasList(f) =>
                /\ Len(Out(f).l) = Len(Taken(f))
                /\ \A j \in 1..Len(Taken(f)) :
                       <<Out(f).l[j]>> = Alone(f, Taken(f)[j])

\* The call has returned for a projects list of two different mappings, one
\* of them empty, and both are in the result
C7_Witness ==
    /\ Returned
    /\ HasList("projects")
    /\ Len(Raw("projects").l) = 2
    /\ Raw("projects").l[1] # Raw("projects").l[2]
    /\ \E j \in 1..2 : Raw("projects").l[j] = EmptyDict
    /\ \A j \in 1..2 : IsDict(Raw("projects").l[j])
    /\ Len(Out("projects").l) = 2
    /\ Out("projects").l[1] # Out("projects").l[2]

\* The key of the fallback profile that corresponds to a contact field: the
\* profile holds the address under location
FallbackKey(f) == IF f = "address" THEN "location" ELSE f

\* C8: each contact sub-field is the input's value when present, else the
\* profile's corresponding value when present, else the empty string, and
\* the other sub-fields of the input's contact do not change it.
C8_ContactFallback ==
    (Returned /\ Benign("contact")) =>
        LET raw == Get(data, "contact", EmptyDict)
        IN  \A j \in 1..Len(ContactFields) :
            LET f == ContactFields[j]
            IN  /\ Out("contact").d[f]
                     = IF f \in DOMAIN raw.d THEN raw.d[f]
                       ELSE IF FallbackKey(f) \in DOMAIN user_profile.d
                       THEN user_profile.d[FallbackKey(f)]
                       ELSE EmptyStr
                /\ \A other \in ContactValues :
                       (/\ IsDict(other)
                        /\ (f \in DOMAIN other.d) = (f \in DOMAIN raw.d)
                        /\ f \in DOMAIN raw.d => other.d[f] = raw.d[f])
                       => contact_field(Doc("contact", other), user_profile, f)
                            = Ok(Out("contact").d[f])

\* The call has returned for a contact with an empty phone and no address,
\* against a profile with a phone and a location: the empty phone is kept,
\* the address is the profile's location, an absent field without a profile
\* value is empty
C8_Witness ==
    /\ Returned
    /\ "contact" \in DOMAIN data.d
    /\ IsDict(data.d.contact)
    /\ "phone" \in DOMAIN data.d.contact.d
    /\ data.d.contact.d.phone = EmptyStr
    /\ "address" \notin DOMAIN data.d.contact.d
    /\ "email" \notin DOMAIN data.d.contact.d
    /\ {"phone", "location"} \subseteq DOMAIN user_profile.d
    /\ "email" \notin DOMAIN user_profile.d
    /\ Out("contact").d.phone = EmptyStr
    /\ Out("contact").d.address = user_profile.d.location
    /\ Out("contact").d.email = EmptyStr

\* C9: header.name is the input's name when present, else the profile's name
\* when present, else the empty string; header.title is the input's title
\* when present, else the empty string, whatever the profile.
C9_HeaderResolution ==
    (Returned /\ Benign("header")) =>
        LET raw == Get(data, "header", EmptyDict)
        IN  /\ Out("header").d.name
                 = IF "name" \in DOMAIN raw.d THEN raw.d.name
                   ELSE IF "name" \in DOMAIN user_profile.d
                   THEN user_profile.d.name
                   ELSE EmptyStr
            /\ Out("header").d.title
                 = IF "title" \in DOMAIN raw.d THEN raw.d.title ELSE EmptyStr
            /\ \A p \in HeaderProfiles \cup {FullProfile} :
                   validate_and_clean(data, p).val.d.header.d.title
                     = Out("header").d.title

\* The call has returned for a header without name and title, against a
\* profile with a name and a title: the name is the profile's, the title is
\* empty
C9_Witness ==
    /\ Returned
    /\ "header" \in DOMAIN data.d
    /\ data.d.header = EmptyDict
    /\ {"name", "title"} \subseteq DOMAIN user_profile.d
    /\ Out("header").d.name = user_profile.d.name
    /\ Out("header").d.title = EmptyStr

\* C10: the year of a normalized education entry is a string, the decimal
\* form of a numeric year and "" for a missing one, and details is the value
\* under details when present, else the value under gpa, else "".
C10_Education ==
    (Returned /\ HasList("education")) =>
        /\ Len(Out("education").l) = Len(Mappings("education"))
        /\ \A j \in 1..Len(Mappings("education")) :
            LET raw == Mappings("education")[j]
                out == Out("education").l[j].d
            IN  /\ IsStr(out.year)
                /\ "year" \notin DOMAIN raw.d => out.year = EmptyStr
                /\ ("year" \in DOMAIN raw.d /\ IsInt(raw.d.year))
                   => ParseInt(out.year.s) = Ok(raw.d.year)
                /\ out.details = Resolve(raw, "details", "gpa", EmptyStr)


\* The shapes of entry each list field accepts
Accepted(field, entry) ==
    IF field = "skills" THEN entry.t \in {"dict", "str"} ELSE entry.t = "dict"

\* The number of entries of a list of the input that have an accepted shape
AcceptedCount(field) ==
    Cardinality({j \in 1..Len(Raw(field).l) : Accepted(field, Raw(field).l[j])})

\* C17: an entry of projects, experience or education that is not a mapping,
\* and an entry of skills that is neither a mapping nor a string, gives no
\* normalized entry: each normalized list has as many entries as the input
\* list has entries of an accepted shape, which may be fewer than the input
\* list has.
C17_WrongShapeDropped ==
    Returned =>
        \A f \in ListFields :
            HasList(f) =>
                /\ Len(Out(f).l) = AcceptedCount(f)
                /\ Len(Out(f).l) <= Len(Raw(f).l)
                /\ \A j \in 1..Len(Out(f).l) :
                       \E k \in j..Len(Raw(f).l) :
                           /\ Accepted(f, Raw(f).l[k])
                           /\ <<Out(f).l[j]>> = Alone(f, Raw(f).l[k])

\* The call has returned for a skills list of a number and a bare string,
\* and for a projects list of a mapping and a string: one entry each is left
C17_Witness ==
    /\ Returned
    /\ \/ /\ HasList("skills")
          /\ Len(Raw("skills").l) = 2
          /\ \E j \in 1..2 : IsInt(Raw("skills").l[j])
          /\ \E j \in 1..2 : IsStr(Raw("skills").l[j])
          /\ Len(Out("skills").l) = 1
       \/ /\ HasList("projects")
          /\ Len(Raw("projects").l) = 2
          /\ \E j \in 1..2 : IsStr(Raw("projects").l[j])
          /\ \E j \in 1..2 : IsDict(Raw("projects").l[j])
          /\ Len(Out("projects").l) = 1


\* ------------------------------------------------------------------------
\* ResumeAgent.generate_structured_resume and tailor_to_job_description
\* ------------------------------------------------------------------------
\* bool(x), the test of an if statement
Truthy(x) ==
    CASE IsInt(x) -> x.i # 0
      [] IsStr(x) -> x.s # <<>>
      [] IsList(x) -> x.l # <<>>
      [] IsDict(x) -> DOMAIN x.d # {}
      [] OTHER -> FALSE

\* What llm.call_json can return: a failure, or the mapping parsed from the
\* generator's answer.  The prompt only feeds the generator, whose answer is
\* not determined by it.
Failure == PyNone

GeneratorResults ==
    {Failure, EmptyDict} \cup WholeDocs
    \cup {Doc("header", h) : h \in HeaderValues}
    \cup {Doc("contact", c) : c \in ContactValues}
    \cup {Doc("skills", v) : v \in NonSequences \cup Lists(SkillEntries, 1)}

\* A resume in the shape of the schema, as tailor_to_job_description gets it
ExistingResume ==
    PyDict([header |-> PyDict([name |-> S2("E", "N"), title |-> S2("E", "T")]),
            contact |-> PyDict([phone |-> S2("e", "1"), email |-> S2("e", "2"),
                                address |-> S2("e", "3"),
                                website |-> S2("e", "4"),
                                linkedin |-> S2("e", "5")]),
            summary |-> S2("e", "s"),
            skills |-> PyList(<<PyDict([name |-> S2("P", "y"),
                                        level |-> PyInt(80)])>>),
            projects |-> EmptyList,
            experience |-> EmptyList,
            education |-> EmptyList])

ExistingResumes == {ExistingResume, EmptyDict}

\* if result: (lines 186 and 320)
llm_usable(answer) == Truthy(answer)

\* The call of _validate_and_clean under if result:, not made otherwise
agent_cleaned(answer, profile) ==
    IF llm_usable(answer) THEN validate_and_clean(answer, profile)
    ELSE NoResult

\* The return statements of generate_structured_resume; an exception of
\* _validate_and_clean leaves the method
generate_structured_resume(answer, profile) ==
    IF llm_usable(answer)
    THEN LET cleaned == agent_cleaned(answer, profile)
         IN  IF cleaned.exc # "" THEN Raise(cleaned.exc)
             ELSE Ok([agent |-> "ResumeAgent", status |-> "success",
                      resume_data |-> cleaned.val])
    ELSE Ok([agent |-> "ResumeAgent", status |-> "error",
             message |-> "Failed to generate resume content",
             resume_data |-> PyNone])

\* A call that hands the contact data of the existing resume to the
\* normalizer as the fallback profile
tailor_profile_from_existing(existing) ==
    IF IsDict(existing) /\ {"header", "contact"} \subseteq DOMAIN existing.d
    THEN PyDict(existing.d.header.d @@ existing.d.contact.d)
    ELSE EmptyDict

\* The second argument of self._validate_and_clean(result, {})
tailor_profile(existing) == EmptyDict

\* The return statements of tailor_to_job_description
tailor_to_job_description(answer, existing) ==
    IF llm_usable(answer)
    THEN LET cleaned == agent_cleaned(answer, tailor_profile(existing))
         IN  IF cleaned.exc # "" THEN Raise(cleaned.exc)
             ELSE Ok([agent |-> "ResumeAgent", status |-> "success",
                      resume_data |-> cleaned.val, tailored |-> TRUE])
    ELSE Ok([agent |-> "ResumeAgent", status |-> "error",
             message |-> "Failed to tailor resume",
             resume_data |-> PyNone])

AgentInit ==
    /\ data = PyNone
    /\ user_profile \in {EmptyDict, FullProfile}
    /\ existing_resume \in ExistingResumes
    /\ pc = "start"
    /\ result = NoResult
    /\ again = NoResult
    /\ response = NoResponse
    /\ llm_calls = 0
    /\ RenderIdle

\* resume_agent.generate_structured_resume(user_profile, ...): one call of
\* llm.call_json, whose return value is kept in data
GenerateStructuredResume ==
    /\ pc = "start"
    /\ \E answer \in GeneratorResults :
        /\ data' = answer
        /\ result' = agent_cleaned(answer, user_profile)
        /\ response' = generate_structured_resume(answer, user_profile)
    /\ llm_calls' = llm_calls + 1
    /\ pc' = "generated"
    /\ UNCHANGED <<user_profile, again, existing_resume, renderVars>>

\* resume_agent.tailor_to_job_description(existing_resume, ...)
TailorToJobDescription ==
    /\ pc = "start"
    /\ \E answer \in GeneratorResults :
        /\ data' = answer
        /\ result' = agent_cleaned(answer, tailor_profile(existing_resume))
        /\ response' = tailor_to_job_description(answer, existing_resume)
    /\ llm_calls' = llm_calls + 1
    /\ pc' = "tailored"
    /\ UNCHANGED <<user_profile, again, existing_resume, renderVars>>

AgentNext == GenerateStructuredResume \/ TailorToJobDescription

AgentSpec == AgentInit /\ [][AgentNext]_vars

AgentDone == pc \in {"generated", "tailored"}

\* C12: the normalizer is invoked if and only if the generator returned a
\* mapping, empty or not, rather than a failure; on a failure the operation
\* returns status error with a message and a null resume_data and does not
\* raise; on a mapping it returns status success with the normalized
\* document as resume_data; the generator is called once.
C12_FailureHandling ==
    AgentDone =>
        /\ llm_calls = 1
        /\ (result # NoResult) = IsDict(data)
        /\ data = Failure =>
            /\ response.exc = ""
            /\ response.val.status = "error"
            /\ "message" \in DOMAIN response.val
            /\ response.val.resume_data = PyNone
        /\ (IsDict(data) /\ validate_and_clean(data, EmptyDict).exc = "") =>
            /\ response.exc = ""
            /\ response.val.status = "success"
            /\ response.val.resume_data = result.val

\* C18: tailor_to_job_description normalizes against an empty profile: the
\* header name and every contact field that the generator's mapping omits is
\* the empty string, and the tailored document is the same whatever the
\* existing resume is.
C18_TailorEmptyFallback ==
    (pc = "tailored" /\ response.exc = "" /\ response.val.status = "success") =>
        LET doc == response.val.resume_data
            header == Get(data, "header", EmptyDict)
            contact == Get(data, "contact", EmptyDict)
        IN  /\ "name" \notin DOMAIN header.d => doc.d.header.d.name = EmptyStr
            /\ \A j \in 1..Len(ContactFields) :
                   ContactFields[j] \notin DOMAIN contact.d
                   => doc.d.contact.d[ContactFields[j]] = EmptyStr
            /\ \A e \in ExistingResumes :
                   tailor_to_job_description(data, e) = response

\* A tailoring call has succeeded for an existing resume that has a name and
\* contact data, on a generator mapping that omits the name and a contact
\* field, and these are empty in the result
C18_Witness ==
    /\ pc = "tailored"
    /\ existing_resume = ExistingResume
    /\ response.exc = ""
    /\ response.val.status = "success"
    /\ "name" \notin DOMAIN Get(data, "header", EmptyDict).d
    /\ "contact" \in DOMAIN data.d
    /\ "email" \in DOMAIN data.d.contact.d
    /\ "phone" \notin DOMAIN data.d.contact.d
    /\ response.val.resume_data.d.header.d.name = EmptyStr
    /\ response.val.resume_data.d.contact.d.phone = EmptyStr
    /\ response.val.resume_data.d.contact.d.email = data.d.contact.d.email


\* ------------------------------------------------------------------------
\* HTMLPDFGenerator.validate_resume_data
\* ------------------------------------------------------------------------
\* The keys of required_structure, in the order of the dict literal
required_structure ==
    <<"header", "contact", "summary", "skills", "experience", "education">>

\* for field in required_structure: if field not in data: append
missing_fields(doc) == SelectSeq(required_structure, LAMBDA f : f \notin DOMAIN doc.d)

validate_resume_data(doc) ==
    [valid |-> Len(missing_fields(doc)) = 0,
     missing_fields |-> missing_fields(doc)]

ValidateInit ==
    /\ data \in WholeDocs
    /\ user_profile = EmptyDict
    /\ pc = "start"
    /\ result = NoResult
    /\ again = NoResult
    /\ AgentIdle
    /\ RenderIdle

\* html_pdf_generator.validate_resume_data(data)
ValidateResumeData ==
    /\ pc = "start"
    /\ validation' = validate_resume_data(data)
    /\ pc' = "validated"
    /\ UNCHANGED <<cleanVars, agentVars, rendered, files, clock, procs>>

\* The caller goes on to normalize the document, whatever the validation said
CleanValidated ==
    /\ pc = "validated"
    /\ result' = validate_and_clean(data, user_profile)
    /\ pc' = "cleaned"
    /\ UNCHANGED <<data, user_profile, again, agentVars, renderVars>>

ValidateNext == ValidateResumeData \/ CleanValidated

ValidateSpec == ValidateInit /\ [][ValidateNext]_vars

SevenFields ==
    {"header", "contact", "summary", "skills", "experience", "education",
     "projects"}

\* The members of a sequence
Range(seq) == {seq[j] : j \in 1..Len(seq)}

\* C13: missing_fields is exactly the set of the seven top-level fields that
\* the document lacks, and valid is true if and only if none is missing; a
\* document that lacks only projects is invalid, with projects listed.
C13_Validate ==
    pc = "validated" =>
        /\ Range(validation.missing_fields) = SevenFields \ DOMAIN data.d
        /\ validation.valid = (validation.missing_fields = <<>>)


\* ------------------------------------------------------------------------
\* HTMLPDFGenerator.RESUME_TEMPLATE, rendered by jinja2
\*
\* The rendered HTML is the sequence of its elements: an element with a
\* literal text of the template has a title, an element bound to the
\* document has the text jinja2 prints for the value.
\* ------------------------------------------------------------------------
\* A name of the template that the document does not define
Undefined == [t |-> "Undefined"]

\* A top-level name of the template, bound by render(**resume_data)
Var(doc, k) == IF k \in DOMAIN doc.d THEN doc.d[k] ELSE Undefined

\* x.k in the template: the item of a mapping, undefined when it has none
JItem(x, k) == IF IsDict(x) /\ k \in DOMAIN x.d THEN x.d[k] ELSE Undefined

\* {{ v }}: an undefined value prints as nothing, another one as str(v)
Emit(v) == IF v = Undefined THEN <<>> ELSE str(v).s

LowerCase ==
    <<"a","b","c","d","e","f","g","h","i","j","k","l","m",
      "n","o","p","q","r","s","t","u","v","w","x","y","z">>
UpperCase ==
    <<"A","B","C","D","E","F","G","H","I","J","K","L","M",
      "N","O","P","Q","R","S","T","U","V","W","X","Y","Z">>

UpperChar(c) ==
    IF \E j \in 1..26 : LowerCase[j] = c
    THEN UpperCase[CHOOSE j \in 1..26 : LowerCase[j] = c] ELSE c
LowerChar(c) ==
    IF \E j \in 1..26 : UpperCase[j] = c
    THEN LowerCase[CHOOSE j \in 1..26 : UpperCase[j] = c] ELSE c

\* The upper filter and str.lower()
Upper(s) == [j \in 1..Len(s) |-> UpperChar(s[j])]
Lower(s) == [j \in 1..Len(s) |-> LowerChar(s[j])]

El(class, text) == [class |-> class, text |-> text]
Lit(class, title) == [class |-> class, title |-> title]

\* A part of the template either yields its elements or raises
ROk(out) == [exc |-> "", out |-> out]
RRaise(e) == [exc |-> e, out |-> <<>>]
Cat(a, b) ==
    IF a.exc # "" THEN a
    ELSE IF b.exc # "" THEN b
    ELSE ROk(a.out \o b.out)

\* {% for x in v %} over a value of the document
JIterate(v) == IF v = Undefined THEN Ok(EmptyList) ELSE Iterate(v)

\* A template that prints the header of a section without testing its list
section_always(v) == TRUE

\* {% if v %} around a section
section_shown(v) == Truthy(v)

\* <title>{{ header.name }} - Resume</title>, <h1>, <h2>
HeaderPart(doc) ==
    LET header == Var(doc, "header")
    IN  IF header = Undefined THEN RRaise("UndefinedError")
        ELSE ROk(<<El("title", Emit(JItem(header, "name"))
                               \o <<" ", "-", " ", "R", "e", "s", "u", "m", "e">>),
                   El("h1", Upper(Emit(JItem(header, "name")))),
                   El("h2", Upper(Emit(JItem(header, "title"))))>>)

RECURSIVE ContactItems(_, _)
ContactItems(contact, fields) ==
    IF fields = <<>> THEN <<>>
    ELSE (IF Truthy(JItem(contact, Head(fields)))
          THEN <<Lit("contact-label", Head(fields)),
                 El("contact-value", Emit(JItem(contact, Head(fields))))>>
          ELSE <<>>)
         \o ContactItems(contact, Tail(fields))

ContactPart(doc) ==
    LET contact == Var(doc, "contact")
    IN  IF contact = Undefined THEN RRaise("UndefinedError")
        ELSE ROk(<<Lit("section-title", "Contact")>>
                 \o ContactItems(contact, ContactFields))

SummaryPart(doc) ==
    IF section_shown(Var(doc, "summary"))
    THEN ROk(<<Lit("section-title", "Summary"),
               El("summary-text", Emit(Var(doc, "summary")))>>)
    ELSE ROk(<<>>)

\* {% if points %}<ul>{% for point in points %}<li>{{ point }}</li>...
PointsPart(points) ==
    IF ~Truthy(points) THEN ROk(<<>>)
    ELSE LET it == JIterate(points)
         IN  IF it.exc # "" THEN RRaise(it.exc)
             ELSE ROk([j \in 1..Len(it.val.l) |-> El("li", Emit(it.val.l[j]))])

RECURSIVE JoinTexts(_)
JoinTexts(items) ==
    IF items = <<>> THEN <<>>
    ELSE IF Len(items) = 1 THEN Emit(items[1])
    ELSE Emit(items[1]) \o <<",", " ">> \o JoinTexts(Tail(items))

\* {% if project.tech_stack %}{{ project.tech_stack | join(', ') }}
TechPart(tech_stack) ==
    IF ~Truthy(tech_stack) THEN ROk(<<>>)
    ELSE LET it == JIterate(tech_stack)
         IN  IF it.exc # "" THEN RRaise(it.exc)
             ELSE ROk(<<El("project-tech", JoinTexts(it.val.l))>>)

EducationBlock(edu) ==
    ROk(<<Lit("education-item", ""),
          El("education-year", Emit(JItem(edu, "year"))),
          El("education-degree", Emit(JItem(edu, "degree")))>>
        \o (IF Truthy(JItem(edu, "details"))
            THEN <<El("education-honors", Emit(JItem(edu, "details")))>>
            ELSE <<>>)
        \o <<El("education-institution", Emit(JItem(edu, "institution")))>>)

\* style="width: {{ skill.level }}%;"
skill_width(skill) == Emit(JItem(skill, "level"))

SkillBlock(skill) ==
    ROk(<<Lit("skill-item", ""),
          El("skill-name", Emit(JItem(skill, "name"))),
          El("skill-level", Emit(JItem(skill, "level")) \o <<"%">>),
          [class |-> "skill-fill", width |-> skill_width(skill), unit |-> "%"]>>)

ExperienceBlock(exp) ==
    Cat(ROk(<<Lit("experience-item", ""),
              El("experience-duration", Emit(JItem(exp, "duration"))),
              El("experience-role", Emit(JItem(exp, "role"))),
              El("experience-company",
                 Emit(JItem(exp, "company"))
                 \o (IF Truthy(JItem(exp, "location"))
                     THEN <<",", " ">> \o Emit(JItem(exp, "location"))
                     ELSE <<>>))>>),
        PointsPart(JItem(exp, "points")))

ProjectBlock(project) ==
    Cat(ROk(<<Lit("project-item", ""),
              El("project-title", Emit(JItem(project, "title")))>>),
        Cat(TechPart(JItem(project, "tech_stack")),
            PointsPart(JItem(project, "points"))))

Block(field, entry) ==
    CASE field = "education" -> EducationBlock(entry)
      [] field = "skills" -> SkillBlock(entry)
      [] field = "experience" -> ExperienceBlock(entry)
      [] field = "projects" -> ProjectBlock(entry)

RECURSIVE Blocks(_, _)
Blocks(field, items) ==
    IF items = <<>> THEN ROk(<<>>)
    ELSE Cat(Block(field, Head(items)), Blocks(field, Tail(items)))

SectionTitle(field) ==
    CASE field = "education" -> "Education"
      [] field = "skills" -> "Relevant Skills"
      [] field = "experience" -> "Professional Experience"
      [] field = "projects" -> "Projects"

\* {% if field %} title {% for entry in field %} block {% endfor %}{% endif %}
SectionPart(doc, field) ==
    IF section_shown(Var(doc, field))
    THEN LET it == JIterate(Var(doc, field))
         IN  IF it.exc # "" THEN RRaise(it.exc)
             ELSE Cat(ROk(<<Lit("section-title", SectionTitle(field))>>),
                      Blocks(field, it.val.l))
    ELSE ROk(<<>>)

\* self.template.render(**resume_data)
template_render(doc) ==
    Cat(HeaderPart(doc),
    Cat(ContactPart(doc),
    Cat(SummaryPart(doc),
    Cat(SectionPart(doc, "education"),
    Cat(SectionPart(doc, "skills"),
    Cat(SectionPart(doc, "experience"),
        SectionPart(doc, "projects")))))))


\* ------------------------------------------------------------------------
\* HTMLPDFGenerator.generate_pdf, generate_pdf_bytes, generate_html_preview
\* ------------------------------------------------------------------------
IsAlnum(c) ==
    \/ IsDigit(c)
    \/ \E j \in 1..26 : LowerCase[j] = c \/ UpperCase[j] = c

\* ''.join(c if c.isalnum() else '_' for c in name_slug)
Slug(s) == [j \in 1..Len(s) |-> IF IsAlnum(s[j]) THEN s[j] ELSE "_"]

DefaultSlugName == PyStr(<<"r", "e", "s", "u", "m", "e">>)

\* resume_data.get('header', {}).get('name', 'resume').lower()
name_slug(doc) ==
    LET header == IF "header" \in DOMAIN doc.d THEN doc.d["header"]
                  ELSE EmptyDict
    IN  IF ~IsDict(header) THEN Raise("AttributeError")
        ELSE LET name == IF "name" \in DOMAIN header.d THEN header.d["name"]
                         ELSE DefaultSlugName
             IN  IF ~IsStr(name) THEN Raise("AttributeError")
                 ELSE Ok(PyStr(Slug(Lower(name.s))))

\* f"{name_slug}_{timestamp}.pdf" under output_dir: the time stamp has the
\* resolution of one second, now is the second of the call
pdf_filepath(doc, now) ==
    IF name_slug(doc).exc # "" THEN name_slug(doc)
    ELSE Ok([slug |-> name_slug(doc).val.s, timestamp |-> now, ext |-> ".pdf"])

\* What pisa.CreatePDF does with the HTML is the library's: it writes the
\* whole PDF, or reports errors after writing what it could, or raises
PisaOutcomes == {"ok", "err", "raise"}

\* The bytes in dest after pisa.CreatePDF(html_content, dest=...)
NoBytes == [of |-> <<>>, complete |-> FALSE]
pisa_written(html, outcome) ==
    CASE outcome = "ok" -> [of |-> html, complete |-> TRUE]
      [] outcome = "err" -> [of |-> html, complete |-> FALSE]
      [] outcome = "raise" -> NoBytes

PdfError(message, cause) ==
    [status |-> "error", message |-> message, cause |-> cause,
     file_path |-> PyNone]
PdfSuccess(filepath) ==
    [status |-> "success", message |-> "Resume PDF generated successfully",
     cause |-> "", file_path |-> filepath]

\* open(filepath, "wb") creates the file or empties the one that is there
open_wb(dir, filepath) ==
    [f \in DOMAIN dir \cup {filepath} |->
        IF f = filepath THEN NoBytes ELSE dir[f]]

\* generate_pdf without a filename: what it returns and the files it leaves
generate_pdf(doc, now, outcome, dir) ==
    LET filepath == pdf_filepath(doc, now)
        html == template_render(doc)
    IN  IF filepath.exc # ""
        THEN [ret |-> PdfError("Failed to generate PDF", filepath.exc),
              files |-> dir]
        ELSE IF html.exc # ""
        THEN [ret |-> PdfError("Failed to generate PDF", html.exc),
              files |-> dir]
        ELSE LET written ==
                     [open_wb(dir, filepath.val) EXCEPT
                        ![filepath.val] = pisa_written(html.out, outcome)]
             IN  CASE outcome = "raise" ->
                        [ret |-> PdfError("Failed to generate PDF", "pisa"),
                         files |-> written]
                   [] outcome = "err" ->
                        [ret |-> PdfError("PDF generation had errors", "pisa"),
                         files |-> written]
                   [] outcome = "ok" ->
                        [ret |-> PdfSuccess(filepath.val), files |-> written]

\* generate_pdf_bytes: the status pisa.CreatePDF returns is dropped
generate_pdf_bytes(doc, outcome) ==
    LET html == template_render(doc)
    IN  IF html.exc # "" THEN Raise(html.exc)
        ELSE IF outcome = "raise" THEN Raise("pisa")
        ELSE Ok(pisa_written(html.out, outcome))

generate_html_preview(doc) == template_render(doc)

\* Documents to render: whole documents, and documents with one list
RenderSkills ==
    {PyDict([name |-> S2("P", "y"), level |-> lv]) :
        lv \in {PyInt(37), PyInt(0), PyInt(100), PyInt(150), PyInt(0 - 5)}}
    \cup {S2("G", "o")}
RenderProjects ==
    {PyDict([title |-> S1("T"), tech_stack |-> PyList(<<S1("a"), S1("b")>>),
             points |-> PyList(<<S1("p")>>)]),
     PyDict([name |-> S1("N")]),
     PyDict([tech_stack |-> S2("p", "y")]),
     PyDict([tech_stack |-> PyInt(7)]),
     EmptyDict}
RenderExperience ==
    {PyDict([role |-> S1("R"), company |-> S1("C"), location |-> S1("L"),
             duration |-> S1("D"), points |-> PyList(<<S1("p")>>)]),
     PyDict([title |-> S1("T")]),
     PyDict([points |-> PyInt(3)]),
     EmptyDict}
RenderEducation ==
    {PyDict([degree |-> S1("B"), institution |-> S1("U"),
             year |-> PyInt(2020), details |-> S1("d")]),
     PyDict([degree |-> S1("M"), details |-> EmptyStr]),
     EmptyDict}

RenderInputs ==
    WholeDocs
    \cup {Doc("skills", v) : v \in Lists(RenderSkills, MaxEntries)}
    \cup {Doc("projects", v) : v \in Lists(RenderProjects, MaxEntries)}
    \cup {Doc("experience", v) : v \in Lists(RenderExperience, MaxEntries)}
    \cup {Doc("education", v) : v \in Lists(RenderEducation, MaxEntries)}
    \cup {Doc("header", v) : v \in {PyNone, EmptyDict, Doc("name", PyNone),
                                    Doc("name", S2("J", " "))}}

RenderInit ==
    /\ data \in RenderInputs
    /\ user_profile = EmptyDict
    /\ pc = "start"
    /\ result = NoResult
    /\ again = NoResult
    /\ AgentIdle
    /\ RenderIdle

\* The document handed to the renderer: the response of the normalizer, or
\* the caller's document as it is
CanRender == pc = "start" \/ (pc = "cleaned" /\ result.exc = "")
resume_data == IF pc = "cleaned" THEN result.val ELSE data

Call(op, outcome, ret) ==
    [op |-> op, doc |-> resume_data, normalized |-> (pc = "cleaned"),
     html |-> template_render(resume_data), pisa |-> outcome, ret |-> ret]

\* The rasterizer runs only when the file name and the HTML were made
Rasterized(doc, outcome, named) ==
    IF named /\ template_render(doc).exc = "" THEN outcome ELSE "none"

GeneratePdf ==
    /\ CanRender
    /\ \E outcome \in PisaOutcomes :
         LET call == generate_pdf(resume_data, clock, outcome, files)
         IN  /\ rendered' =
                  Call("generate_pdf",
                       Rasterized(resume_data, outcome,
                                  pdf_filepath(resume_data, clock).exc = ""),
                       call.ret)
             /\ files' = call.files
    /\ pc' = "rendered"
    /\ UNCHANGED <<cleanVars, agentVars, validation, clock, procs>>

GeneratePdfBytes ==
    /\ CanRender
    /\ \E outcome \in PisaOutcomes :
         rendered' = Call("generate_pdf_bytes",
                          Rasterized(resume_data, outcome, TRUE),
                          generate_pdf_bytes(resume_data, outcome))
    /\ pc' = "rendered"
    /\ UNCHANGED <<cleanVars, agentVars, validation, files, clock, procs>>

GenerateHtmlPreview ==
    /\ CanRender
    /\ rendered' = Call("generate_html_preview", "none",
                        generate_html_preview(resume_data))
    /\ pc' = "rendered"
    /\ UNCHANGED <<cleanVars, agentVars, validation, files, clock, procs>>

RenderNext == Clean \/ GeneratePdf \/ GeneratePdfBytes \/ GenerateHtmlPreview
RenderSpec == RenderInit /\ [][RenderNext]_vars

RenderedHtml == pc = "rendered" /\ rendered.html.exc = ""


\* ------------------------------------------------------------------------
\* Properties of the renderer
\* ------------------------------------------------------------------------
OfClass(out, class) == SelectSeq(out, LAMBDA e : e.class = class)
Titled(out, title) ==
    SelectSeq(out, LAMBDA e : e.class = "section-title" /\ e.title = title)

\* The element that opens the block of an entry, and the element and the
\* key that tell whose block it is
ItemClass(field) ==
    CASE field = "education" -> "education-item"
      [] field = "skills" -> "skill-item"
      [] field = "experience" -> "experience-item"
      [] field = "projects" -> "project-item"
KeyClass(field) ==
    CASE field = "education" -> "education-degree"
      [] field = "skills" -> "skill-name"
      [] field = "experience" -> "experience-role"
      [] field = "projects" -> "project-title"
KeyOf(field) ==
    CASE field = "education" -> "degree"
      [] field = "skills" -> "name"
      [] field = "experience" -> "role"
      [] field = "projects" -> "title"

Backing(field) == Var(rendered.doc, field)

\* C15: in a rendered document, each of the sections education, skills,
\* experience and projects has its header exactly when its list is not
\* empty, and then one block per entry of the list, in the order of the
\* list; the summary is there exactly when it is not the empty string.
C15_EmptySectionOmitted ==
    RenderedHtml =>
        LET out == rendered.html.out
        IN  /\ \A field \in ListFields :
                 IsList(Backing(field)) =>
                     LET entries == Backing(field).l
                     IN  /\ Len(Titled(out, SectionTitle(field)))
                              = IF entries = <<>> THEN 0 ELSE 1
                         /\ Len(OfClass(out, ItemClass(field))) = Len(entries)
                         /\ OfClass(out, KeyClass(field))
                              = [j \in 1..Len(entries) |->
                                   El(KeyClass(field),
                                      Emit(JItem(entries[j], KeyOf(field))))]
            /\ IsStr(Backing("summary")) =>
                 /\ Len(Titled(out, "Summary"))
                      = IF Backing("summary") = EmptyStr THEN 0 ELSE 1
                 /\ Len(OfClass(out, "summary-text"))
                      = IF Backing("summary") = EmptyStr THEN 0 ELSE 1

\* A normalized document whose two projects are rendered in two blocks
\* while its empty sections and its empty summary are left out
C15_Witness ==
    /\ RenderedHtml
    /\ rendered.normalized
    /\ Len(Backing("projects").l) = 2
    /\ Backing("projects").l[1].d["title"] # Backing("projects").l[2].d["title"]
    /\ Len(OfClass(rendered.html.out, "project-item")) = 2
    /\ Backing("education") = EmptyList
    /\ Backing("summary") = EmptyStr
    /\ Titled(rendered.html.out, "Education") = <<>>

\* C16: in a rendered document the width of the filled bar of every skill
\* is the level of the skill, in percent, and in a document that was
\* normalized and then rendered every width lies in 0..100.
C16_SkillBar ==
    (RenderedHtml /\ IsList(Backing("skills"))) =>
        LET bars == OfClass(rendered.html.out, "skill-fill")
            skills == Backing("skills").l
        IN  /\ Len(bars) = Len(skills)
            /\ \A j \in 1..Len(skills) :
                 (IsDict(skills[j]) /\ "level" \in DOMAIN skills[j].d
                    /\ IsInt(skills[j].d["level"])) =>
                     /\ bars[j].unit = "%"
                     /\ bars[j].width = IntChars(skills[j].d["level"].i)
                     /\ rendered.normalized =>
                          /\ ParseInt(bars[j].width).exc = ""
                          /\ ParseInt(bars[j].width).val.i \in 0..100

\* C11: a call of generate_pdf or generate_pdf_bytes either produces the
\* complete PDF or signals a failure, and when the binding of the template
\* or the rasterizer reported an error no bytes are returned and no file is
\* left behind.
Failed == rendered.html.exc # "" \/ rendered.pisa \in {"err", "raise"}
C11_AllOrNothing ==
    /\ (pc = "rendered" /\ rendered.op = "generate_pdf_bytes") =>
          /\ rendered.ret.exc = "" => rendered.ret.val.complete
          /\ Failed => rendered.ret.exc # ""
    /\ (pc = "rendered" /\ rendered.op = "generate_pdf") =>
          /\ rendered.ret.status = "success" =>
                /\ rendered.ret.file_path \in DOMAIN files
                /\ files[rendered.ret.file_path].complete
          /\ rendered.ret.status = "error" => files = EmptyFn
          /\ Failed => rendered.ret.status = "error"


\* ------------------------------------------------------------------------
\* Two calls of the singleton html_pdf_generator at the same time
\*
\* The calls share the output directory and the clock and nothing else;
\* a call is split where it reads or writes one of them: it makes its file
\* name and its HTML, it opens its file, the rasterizer writes the file.
\* ------------------------------------------------------------------------
MaxClock == 1
Callers == {1, 2}

ConcurrentDocs ==
    {PyDict([header |-> Doc("name", S2("J", "D")), contact |-> EmptyDict,
             summary |-> S2("o", "k")]),
     PyDict([header |-> Doc("name", S2("J", "D")),
             contact |-> Doc("email", S2("r", "2"))]),
     PyDict([header |-> Doc("name", S2("P", "y")), contact |-> EmptyDict]),
     Doc("header", Doc("name", S2("J", "D")))}

NewCall(op, doc) ==
    [op |-> op, doc |-> doc, pc |-> "call", now |-> 0, filepath |-> PyNone,
     html |-> RRaise("not rendered"), outcome |-> "none", ret |-> NoResult]

ConcurrentInit ==
    /\ \E op1, op2 \in {"generate_pdf", "generate_pdf_bytes"} :
         \E doc1, doc2 \in ConcurrentDocs :
            /\ doc1 # doc2
            /\ procs = <<NewCall(op1, doc1), NewCall(op2, doc2)>>
    /\ data = EmptyDict
    /\ user_profile = EmptyDict
    /\ pc = "concurrent"
    /\ result = NoResult
    /\ again = NoResult
    /\ AgentIdle
    /\ validation = NoValidation
    /\ rendered = NoRender
    /\ files = EmptyFn
    /\ clock = 0

\* datetime.now() moves on between two steps of the calls
Tick ==
    /\ clock < MaxClock
    /\ clock' = clock + 1
    /\ UNCHANGED <<cleanVars, pc, agentVars, validation, rendered, files, procs>>

\* Lines 443-456 and 497: the file name from the clock, and the HTML
Prepare(p) ==
    LET call == procs[p]
        filepath == IF call.op = "generate_pdf"
                    THEN pdf_filepath(call.doc, clock) ELSE Ok(PyNone)
        html == template_render(call.doc)
        exc == IF filepath.exc # "" THEN filepath.exc ELSE html.exc
    IN  /\ call.pc = "call"
        /\ procs' = [procs EXCEPT ![p] =
              IF exc # ""
              THEN [call EXCEPT !.pc = "done", !.now = clock,
                      !.ret = IF call.op = "generate_pdf"
                              THEN PdfError("Failed to generate PDF", exc)
                              ELSE Raise(exc)]
              ELSE [call EXCEPT !.pc = "prepared", !.now = clock,
                      !.filepath = filepath.val, !.html = html]]
        /\ UNCHANGED <<cleanVars, pc, agentVars, validation, rendered, files, clock>>

\* Line 459: open(filepath, "wb")
Open(p) ==
    /\ procs[p].op = "generate_pdf"
    /\ procs[p].pc = "prepared"
    /\ files' = open_wb(files, procs[p].filepath)
    /\ procs' = [procs EXCEPT ![p].pc = "opened"]
    /\ UNCHANGED <<cleanVars, pc, agentVars, validation, rendered, clock>>

pdf_return(outcome, filepath) ==
    CASE outcome = "raise" -> PdfError("Failed to generate PDF", "pisa")
      [] outcome = "err" -> PdfError("PDF generation had errors", "pisa")
      [] outcome = "ok" -> PdfSuccess(filepath)

\* Lines 460-478: the rasterizer writes the open file, the call returns
WriteFile(p) ==
    /\ procs[p].op = "generate_pdf"
    /\ procs[p].pc = "opened"
    /\ \E outcome \in PisaOutcomes :
         /\ files' = [files EXCEPT ![procs[p].filepath] =
                         pisa_written(procs[p].html.out, outcome)]
         /\ procs' = [procs EXCEPT ![p] =
                         [@ EXCEPT !.pc = "done", !.outcome = outcome,
                             !.ret = pdf_return(outcome, procs[p].filepath)]]
    /\ UNCHANGED <<cleanVars, pc, agentVars, validation, rendered, clock>>

\* Lines 498-503: the rasterizer writes the call's own buffer
WriteBuffer(p) ==
    /\ procs[p].op = "generate_pdf_bytes"
    /\ procs[p].pc = "prepared"
    /\ \E outcome \in PisaOutcomes :
         procs' = [procs EXCEPT ![p] =
                      [@ EXCEPT !.pc = "done", !.outcome = outcome,
                          !.ret = IF outcome = "raise" THEN Raise("pisa")
                                  ELSE Ok(pisa_written(procs[p].html.out,
                                                       outcome))]]
    /\ UNCHANGED <<cleanVars, pc, agentVars, validation, rendered, files, clock>>

ConcurrentNext ==
    \/ Tick
    \/ \E p \in Callers : Prepare(p)
    \/ \E p \in Callers : Open(p)
    \/ \E p \in Callers : WriteFile(p)
    \/ \E p \in Callers : WriteBuffer(p)
ConcurrentSpec == ConcurrentInit /\ [][ConcurrentNext]_vars

\* What the call would have returned and left had it run alone
Alone_pdf(call) == generate_pdf(call.doc, call.now, call.outcome, EmptyFn)
Alone_bytes(call) == generate_pdf_bytes(call.doc, call.outcome)

\* C14: whatever the interleaving of two render calls on different
\* documents, a call that has returned has the result it would have had
\* alone, and the file a generate_pdf call reports as produced holds the
\* PDF of that call's document, complete, whatever the other call does.
C14_ConcurrentIndependence ==
    pc = "concurrent" =>
        \A p \in Callers :
            (procs[p].pc = "done" /\ procs[p].outcome # "none") =>
                IF procs[p].op = "generate_pdf"
                THEN /\ procs[p].ret = Alone_pdf(procs[p]).ret
                     /\ procs[p].ret.status = "success" =>
                          /\ procs[p].ret.file_path \in DOMAIN files
                          /\ files[procs[p].ret.file_path]
                               = Alone_pdf(procs[p]).files[procs[p].ret.file_path]
                ELSE procs[p].ret = Alone_bytes(procs[p])

====
